---- MODULE Spec2Model ----
(***************************************************************************)
(* latest-sender: the Selector (src/src/file_finder.rs), the Uploader      *)
(* (src/src/discord_sender.rs), the configuration (src/src/config.rs) and  *)
(* the driver (src/src/main.rs).                                           *)
(*                                                                         *)
(* Three specifications share the variables:                               *)
(*   SelSpec  one call of FileFinder on a bounded directory                *)
(*   UpSpec   one call of each DiscordSender entry point on one input      *)
(*   Spec     one run of main over a bounded configuration                 *)
(***************************************************************************)
EXTENDS Integers, Sequences, FiniteSets, TLC

(* ------------------------------ bounds -------------------------------- *)

\* Most entries a modelled directory holds.
MaxFiles == 3
\* Modification times are 0 .. MaxTime (seconds); the clock reads MaxTime.
MaxTime == 2
\* Most [[backups]] entries of a modelled configuration.
MaxEntries == 2

(* ------------------------------ options ------------------------------- *)

NoInt == [some |-> FALSE, val |-> 0]
SomeInt(n) == [some |-> TRUE, val |-> n]
NoStr == [some |-> FALSE, val |-> ""]
SomeStr(s) == [some |-> TRUE, val |-> s]

(* ------------------------- the file system ---------------------------- *)

\* Local::now() of file_finder.rs:60. No modelled file is newer than it.
Now == MaxTime

Times == 0 .. MaxTime

\* What a path of the directory is:
\*   file        a regular file (or a link to one): fs::metadata is_file()
\*   dir         a directory: fs::metadata succeeds, is_file() is false
\*   broken      fs::metadata fails (dangling link, removed after expansion,
\*               permission denied on stat)
\*   unreadable  the expansion itself could not read it: the glob iterator
\*               yields Err(GlobError) for it
\* Only a file's modification time is read.
DirEntries ==
    [ext : {"txt", "log"}, kind : {"file"}, mtime : Times]
      \cup [ext : {"txt", "log"}, kind : {"dir"}, mtime : {Now}]
      \cup [ext : {"txt", "log"}, kind : {"broken", "unreadable"}, mtime : {0}]

\* A directory: its entries in the order the glob iterator yields them. The
\* path of an entry is its position.
Dirs == UNION {[1 .. n -> DirEntries] : n \in 0 .. MaxFiles}

\* "[" is a pattern with a syntax error (glob::PatternError).
Patterns == {"*.txt", "*", "["}

PatternValid(pattern) == pattern # "["

Matches(pattern, e) ==
    \/ pattern = "*"
    \/ pattern = "*.txt" /\ e.ext = "txt"

\* glob(&search_pattern): the matching paths in order, each Ok(path) or Err.
RECURSIVE GlobFrom(_, _, _)
GlobFrom(dir, pattern, k) ==
    IF k > Len(dir) THEN <<>>
    ELSE IF Matches(pattern, dir[k])
         THEN <<[ok |-> dir[k].kind # "unreadable", path |-> k]>>
                \o GlobFrom(dir, pattern, k + 1)
         ELSE GlobFrom(dir, pattern, k + 1)

Glob(dir, pattern) == GlobFrom(dir, pattern, 1)

(* ----------------------------- Selector ------------------------------- *)

\* file_finder.rs:30
ScanInit == [failed |-> FALSE, has |-> FALSE, path |-> 0, mtime |-> 0, logged |-> 0]

IsNewerOrEqual(modified_time, current_latest) == modified_time >= current_latest

\* file_finder.rs:47
IsNewer(modified_time, current_latest) == modified_time > current_latest

\* file_finder.rs:35-36: fs::metadata(&path) fails, and `?` returns the error.
MetadataFails(e) == e.kind = "broken"

\* One iteration of the loop of file_finder.rs:32-56.
ScanEntry(dir, st, g) ==
    IF ~g.ok
    THEN [st EXCEPT !.logged = @ + 1]
    ELSE IF MetadataFails(dir[g.path])
    THEN [st EXCEPT !.failed = TRUE]
    ELSE IF dir[g.path].kind = "file"
    THEN IF ~st.has \/ IsNewer(dir[g.path].mtime, st.mtime)
         THEN [st EXCEPT !.has = TRUE, !.path = g.path, !.mtime = dir[g.path].mtime]
         ELSE st
    ELSE st

\* The loop: it ends at the first metadata failure.
RECURSIVE Scan(_, _, _, _)
Scan(dir, results, k, st) ==
    IF k > Len(results) \/ st.failed THEN st
    ELSE Scan(dir, results, k + 1, ScanEntry(dir, st, results[k]))

IsStaleOrEqual(modified_time, cutoff_time) == modified_time <= cutoff_time

\* file_finder.rs:63
IsStale(modified_time, cutoff_time) == modified_time < cutoff_time

SelErr(why) == [kind |-> "Err", path |-> 0, mtime |-> 0, logged |-> 0, why |-> why]

\* FileFinder::find_latest_file_with_period. The result carries, beside the
\* path, the modification time of the chosen file and the number of glob
\* errors written to stderr. `dir` is what the search pattern of lines 19-28
\* resolves to; the current directory is taken to be readable.
find_latest_file_with_period(dir, pattern, check_period, now) ==
    IF ~PatternValid(pattern) THEN SelErr("Failed to read glob pattern")
    ELSE LET st == Scan(dir, Glob(dir, pattern), 1, ScanInit) IN
         IF st.failed THEN SelErr("Failed to get metadata")
         ELSE IF st.has /\ check_period.some /\ IsStale(st.mtime, now - check_period.val)
         THEN [kind |-> "None", path |-> 0, mtime |-> 0, logged |-> st.logged, why |-> ""]
         ELSE IF st.has
         THEN [kind |-> "Some", path |-> st.path, mtime |-> st.mtime,
               logged |-> st.logged, why |-> ""]
         ELSE [kind |-> "None", path |-> 0, mtime |-> 0, logged |-> st.logged, why |-> ""]

\* FileFinder::find_latest_file
find_latest_file(dir, pattern) ==
    find_latest_file_with_period(dir, pattern, NoInt, Now)

(* ----------------------------- Uploader ------------------------------- *)

\* A path is its components; <<>> is the root "/".
UploadPaths ==
    {<<>>, <<"backups", "a.txt">>, <<"backups", "..">>, <<"backups", "\\xFF.txt">>}

\* Path::file_name(): None for the root and for a path that ends in "..".
file_name(path) ==
    IF Len(path) = 0 \/ path[Len(path)] = ".." THEN NoStr
    ELSE SomeStr(path[Len(path)])

\* OsStr::to_str(): None unless the name is valid Unicode.
to_str(n) == IF n = "\\xFF.txt" THEN NoStr ELSE SomeStr(n)

\* discord_sender.rs:16-19 and 61-64: .file_name().and_then(|n| n.to_str())
FileNameStr(path) ==
    IF file_name(path).some THEN to_str(file_name(path).val) ELSE NoStr

Statuses == {199, 200, 204, 299, 300, 400, 404, 500}

Bodies == {"", "{\"message\": \"Invalid webhook token\"}"}

\* What the file system and the remote end do during one upload: whether
\* the file opens and reads, whether a response arrives (transport_ok), its
\* status, and whether its body can be read as text.
UploadEnvs ==
    [open_ok : BOOLEAN, read_ok : BOOLEAN, content : {"Test content"},
     transport_ok : BOOLEAN, status : Statuses, body_ok : BOOLEAN, body : Bodies]

Messages == {NoStr, SomeStr("Test message")}

is_success_upto300(status) == status >= 200 /\ status <= 300

\* StatusCode::is_success(), discord_sender.rs:44 and 87
is_success(status) == status >= 200 /\ status < 300

NoOutcome == [kind |-> "none", context |-> "", status |-> 0, text |-> ""]
Success == [kind |-> "success", context |-> "", status |-> 0, text |-> ""]
LocalError(context) == [kind |-> "local", context |-> context, status |-> 0, text |-> ""]
TransportError ==
    [kind |-> "transport", context |-> "Failed to send request to Discord",
     status |-> 0, text |-> ""]
\* anyhow::bail!("Discord API returned error: {} - {}", status, error_text)
RemoteError(status, error_text) ==
    [kind |-> "remote", context |-> "Discord API returned error",
     status |-> status, text |-> error_text]

\* discord_sender.rs:46-48: response.text().unwrap_or_else(|_| "No error message")
ErrorText(env) == IF env.body_ok THEN env.body ELSE "No error message"

FilePart(name, buffer) == [name |-> "file", file_name |-> SomeStr(name), value |-> buffer]
TextPart(name, value) == [name |-> name, file_name |-> NoStr, value |-> value]

\* discord_sender.rs:28-35
BuildForm(name, buffer, message) ==
    <<FilePart(name, buffer)>>
      \o (IF message.some THEN <<TextPart("content", message.val)>> ELSE <<>>)

BuildFormAsyncNoCaption(name, buffer, message) == <<FilePart(name, buffer)>>

\* discord_sender.rs:70-77
BuildFormAsync(name, buffer, message) ==
    <<FilePart(name, buffer)>>
      \o (IF message.some THEN <<TextPart("content", message.val)>> ELSE <<>>)

PostRetrying(req, env) == IF env.transport_ok THEN <<req>> ELSE <<req, req>>

\* discord_sender.rs:37-42: client.post(webhook_url).multipart(form).send(),
\* the requests it puts on the wire.
Post(req, env) == <<req>>

\* discord_sender.rs:79-85
PostAsync(req, env) == <<req>>

UpResult(outcome, posts, steps) ==
    [done |-> TRUE, outcome |-> outcome, posts |-> posts, steps |-> steps]
UpPending == [done |-> FALSE, outcome |-> NoOutcome, posts |-> <<>>, steps |-> <<>>]

\* DiscordSender::send_file. `steps` lists what the call did, in order:
\* deriving the name, reading the file into memory (File::open and
\* read_to_end), building the form, the POST, reading the error body.
send_file(webhook_url, path, message, env) ==
    LET name == FileNameStr(path) IN
    IF ~name.some
    THEN UpResult(LocalError("Failed to get file name"), <<>>, <<"file_name">>)
    ELSE IF ~env.open_ok
    THEN UpResult(LocalError("Failed to open file"), <<>>, <<"file_name", "read_file">>)
    ELSE IF ~env.read_ok
    THEN UpResult(LocalError("Failed to read file"), <<>>, <<"file_name", "read_file">>)
    ELSE LET req == [url |-> webhook_url,
                     form |-> BuildForm(name.val, env.content, message)]
             posts == Post(req, env)
             sent == <<"file_name", "read_file", "build_form", "post">>
         IN IF ~env.transport_ok THEN UpResult(TransportError, posts, sent)
            ELSE IF ~is_success(env.status)
            THEN UpResult(RemoteError(env.status, ErrorText(env)), posts,
                          Append(sent, "read_body"))
            ELSE UpResult(Success, posts, sent)

\* DiscordSender::send_file_async. tokio::fs::read opens and reads in one
\* call, under a single context message.
send_file_async(webhook_url, path, message, env) ==
    LET name == FileNameStr(path) IN
    IF ~name.some
    THEN UpResult(LocalError("Failed to get file name"), <<>>, <<"file_name">>)
    ELSE IF ~(env.open_ok /\ env.read_ok)
    THEN UpResult(LocalError("Failed to read file"), <<>>, <<"file_name", "read_file">>)
    ELSE LET req == [url |-> webhook_url,
                     form |-> BuildFormAsync(name.val, env.content, message)]
             posts == PostAsync(req, env)
             sent == <<"file_name", "read_file", "build_form", "post">>
         IN IF ~env.transport_ok THEN UpResult(TransportError, posts, sent)
            ELSE IF ~is_success(env.status)
            THEN UpResult(RemoteError(env.status, ErrorText(env)), posts,
                          Append(sent, "read_body"))
            ELSE UpResult(Success, posts, sent)

(* --------------------------- Configuration ---------------------------- *)

\* check_period as written in the file: absent, or one of these strings.
PeriodStrings == {"1s", "invalid", ""}

CheckPeriods == {NoStr} \cup {SomeStr(s) : s \in PeriodStrings}

DurationErr == [ok |-> FALSE, val |-> 0]
DurationOk(n) == [ok |-> TRUE, val |-> n]

\* parse_duration_string (humantime::parse_duration, in seconds): a number
\* followed by a unit; anything else, the empty string included, is an error.
parse_duration_string(duration_str) ==
    CASE duration_str = "1s" -> DurationOk(1)
      [] duration_str = "30m" -> DurationOk(30 * 60)
      [] duration_str = "24h" -> DurationOk(24 * 3600)
      [] duration_str = "1d" -> DurationOk(86400)
      [] duration_str = "1w" -> DurationOk(7 * 86400)
      [] duration_str = "2d 3h" -> DurationOk(2 * 86400 + 3 * 3600)
      [] OTHER -> DurationErr

\* BackupConfig::parse_check_period: Ok(None), Ok(Some(period)) or Err.
parse_check_period(backup) ==
    IF ~backup.check_period.some THEN [ok |-> TRUE, period |-> NoInt]
    ELSE LET d == parse_duration_string(backup.check_period.val) IN
         IF d.ok THEN [ok |-> TRUE, period |-> SomeInt(d.val)]
         ELSE [ok |-> FALSE, period |-> NoInt]

\* The patterns the modelled configurations use.
ConfigPatterns == {"*.txt", "["}

\* struct BackupConfig. The name, the directory and the URL are fixed by the
\* entry's position; what the directory holds is chosen when it is scanned.
BackupConfigs == [file_pattern : ConfigPatterns, check_period : CheckPeriods]

Configs == UNION {[1 .. n -> BackupConfigs] : n \in 0 .. MaxEntries}

\* Config::from_file: what reading and deserializing the file gives.
ConfigFiles == {"ok", "unreadable", "unparsable"}

\* The directories a run scans: empty or one entry, a file oldest or newest.
DriverDirs ==
    {<<>>} \cup {<<e>> : e \in {x \in DirEntries : x.kind = "file" => x.mtime \in {0, Now}}}

\* What a run's uploads meet: every file-system and transport outcome, a
\* 204 or a 400, an empty body.
DriverEnvs ==
    {e \in UploadEnvs : e.status \in {204, 400} /\ e.body_ok /\ e.body = ""}

\* The path of the k-th entry of a scanned directory.
PathOf(k) == <<"backups", ToString(k)>>

(* ------------------------------- state -------------------------------- *)

VARIABLES
    \* Selector: the inputs of one call, which entry point ran, its result
    dir, pattern, check_period, selCalled, selResult,
    \* Uploader: the inputs of one call, and each entry point's result
    upPath, upMessage, upEnv, syncRes, asyncRes,
    \* Driver: the configuration file, the arguments, and main's locals
    cfgFile, config, dry_run, verbose, pc, idx, file_path, total_sent,
    total_skipped,
    \* Driver: what the run did (calls of the Selector and the Uploader, in
    \* order), whether the summary was printed, how main returned
    events, summary, exit

selVars == <<dir, pattern, check_period, selCalled, selResult>>
upVars == <<upPath, upMessage, upEnv, syncRes, asyncRes>>
drvVars == <<cfgFile, config, dry_run, verbose, pc, idx, file_path, total_sent,
             total_skipped, events, summary, exit>>
vars == <<selVars, upVars, drvVars>>

SelPending == [kind |-> "Pending", path |-> 0, mtime |-> 0, logged |-> 0, why |-> ""]

SelIdle ==
    /\ dir = <<>> /\ pattern = "*" /\ check_period = NoInt
    /\ selCalled = "none" /\ selResult = SelPending

UpIdle ==
    /\ upPath = <<>> /\ upMessage = NoStr
    /\ upEnv = CHOOSE e \in UploadEnvs : TRUE
    /\ syncRes = UpPending /\ asyncRes = UpPending

DrvIdle ==
    /\ cfgFile = "ok" /\ config = <<>> /\ dry_run = FALSE /\ verbose = FALSE
    /\ pc = "idle" /\ idx = 0 /\ file_path = 0 /\ total_sent = 0 /\ total_skipped = 0
    /\ events = <<>> /\ summary = FALSE /\ exit = "running"

(* --------------------------- SelSpec ---------------------------------- *)

\* The recency windows tried: none, or 0 .. MaxTime seconds.
Windows == {NoInt} \cup {SomeInt(w) : w \in Times}

SelInit ==
    /\ dir \in Dirs
    /\ pattern \in Patterns
    /\ check_period \in Windows
    /\ selCalled = "none"
    /\ selResult = SelPending
    /\ UpIdle /\ DrvIdle

CallFindLatestFile ==
    /\ selCalled = "none"
    /\ selCalled' = "find_latest_file"
    /\ selResult' = find_latest_file(dir, pattern)
    /\ UNCHANGED <<dir, pattern, check_period, upVars, drvVars>>

CallFindLatestFileWithPeriod ==
    /\ selCalled = "none"
    /\ selCalled' = "find_latest_file_with_period"
    /\ selResult' = find_latest_file_with_period(dir, pattern, check_period, Now)
    /\ UNCHANGED <<dir, pattern, check_period, upVars, drvVars>>

SelNext == CallFindLatestFile \/ CallFindLatestFileWithPeriod

SelSpec == SelInit /\ [][SelNext]_vars

(* ---------------------------- UpSpec ---------------------------------- *)

WebhookUrl == "http://discord/api/webhooks/test"

UpInit ==
    /\ upPath \in UploadPaths
    /\ upMessage \in Messages
    /\ upEnv \in UploadEnvs
    /\ syncRes = UpPending /\ asyncRes = UpPending
    /\ SelIdle /\ DrvIdle

CallSendFile ==
    /\ ~syncRes.done
    /\ syncRes' = send_file(WebhookUrl, upPath, upMessage, upEnv)
    /\ UNCHANGED <<upPath, upMessage, upEnv, asyncRes, selVars, drvVars>>

CallSendFileAsync ==
    /\ ~asyncRes.done
    /\ asyncRes' = send_file_async(WebhookUrl, upPath, upMessage, upEnv)
    /\ UNCHANGED <<upPath, upMessage, upEnv, syncRes, selVars, drvVars>>

UpNext == CallSendFile \/ CallSendFileAsync

UpSpec == UpInit /\ [][UpNext]_vars

(* ------------------------------ Spec ---------------------------------- *)

\* main.rs:29-35: the arguments are parsed, nothing is loaded yet.
Init ==
    /\ cfgFile \in ConfigFiles
    /\ config \in Configs
    /\ cfgFile # "ok" => config = <<>>
    /\ dry_run \in BOOLEAN
    /\ verbose \in BOOLEAN
    /\ pc = "load" /\ idx = 0 /\ file_path = 0
    /\ total_sent = 0 /\ total_skipped = 0
    /\ events = <<>> /\ summary = FALSE /\ exit = "running"
    /\ SelIdle /\ UpIdle

\* main.rs:36-42: Config::from_file(..)?, then the early return on an empty
\* list.
LoadConfig ==
    /\ pc = "load"
    /\ IF cfgFile # "ok"
       THEN pc' = "done" /\ exit' = "err" /\ idx' = idx
       ELSE IF config = <<>>
       THEN pc' = "done" /\ exit' = "ok" /\ idx' = idx
       ELSE pc' = "select" /\ exit' = exit /\ idx' = 1
    /\ UNCHANGED <<cfgFile, config, dry_run, verbose, file_path, total_sent,
                   total_skipped, events, summary, selVars, upVars>>

\* main.rs:47: the for loop goes on to the next entry, or ends.
NextEntry(i) == IF i < Len(config) THEN "select" ELSE "summary"

AfterSelectErrorBreak(i) == "summary"

\* main.rs:82-87: a selection error is printed and the loop goes on.
AfterSelectError(i) == NextEntry(i)

UploadAlways(dry) == FALSE

\* main.rs:54: if args.dry_run, the upload is skipped.
SkipUpload(dry) == dry

SelectEvent(i, r, failed) ==
    [idx |-> i, op |-> "select", res |-> r.kind, mtime |-> r.mtime, posts |-> 0,
     debug |-> verbose /\ failed]

UploadEvent(i, r) ==
    [idx |-> i, op |-> "upload", res |-> r.outcome.kind, mtime |-> 0,
     posts |-> Len(r.posts), debug |-> verbose /\ r.outcome.kind # "success"]

GoTo(target) ==
    /\ pc' = target
    /\ idx' = IF target = "select" THEN idx + 1 ELSE idx

\* main.rs:50-56 and 78-88: the Selector is called on the entry's directory
\* with its pattern, through find_latest_file; the three arms of the match up
\* to the upload.
Select ==
    /\ pc = "select"
    /\ \E d \in DriverDirs :
         LET r == find_latest_file(d, config[idx].file_pattern) IN
         /\ events' = Append(events, SelectEvent(idx, r, r.kind = "Err"))
         /\ CASE r.kind = "Some" /\ SkipUpload(dry_run) ->
                   /\ total_skipped' = total_skipped + 1
                   /\ file_path' = 0
                   /\ GoTo(NextEntry(idx))
              [] r.kind = "Some" /\ ~SkipUpload(dry_run) ->
                   /\ total_skipped' = total_skipped
                   /\ file_path' = r.path
                   /\ pc' = "send" /\ idx' = idx
              [] r.kind = "None" ->
                   /\ total_skipped' = total_skipped + 1
                   /\ file_path' = 0
                   /\ GoTo(NextEntry(idx))
              [] OTHER ->
                   /\ total_skipped' = total_skipped
                   /\ file_path' = 0
                   /\ GoTo(AfterSelectError(idx))
    /\ UNCHANGED <<cfgFile, config, dry_run, verbose, total_sent, summary, exit,
                   selVars, upVars>>

SentAfterAnyUpload(sent, outcome) == sent + 1

\* main.rs:64-74: total_sent += 1 in the Ok arm only.
SentAfter(sent, outcome) == IF outcome.kind = "success" THEN sent + 1 ELSE sent

\* main.rs:58-75: DiscordSender::send_file with the entry's caption; success
\* is counted, a failure is printed.
Send ==
    /\ pc = "send"
    /\ \E env \in DriverEnvs :
         LET r == send_file(WebhookUrl, PathOf(file_path),
                            SomeStr("Latest backup from: name"), env) IN
         /\ events' = Append(events, UploadEvent(idx, r))
         /\ total_sent' = SentAfter(total_sent, r.outcome)
    /\ file_path' = 0
    /\ GoTo(NextEntry(idx))
    /\ UNCHANGED <<cfgFile, config, dry_run, verbose, total_skipped, summary, exit,
                   selVars, upVars>>

\* main.rs:91-101: the summary is printed and main returns Ok(()).
Summary ==
    /\ pc = "summary"
    /\ summary' = TRUE
    /\ exit' = "ok"
    /\ pc' = "done"
    /\ UNCHANGED <<cfgFile, config, dry_run, verbose, idx, file_path, total_sent,
                   total_skipped, events, selVars, upVars>>

Next == LoadConfig \/ Select \/ Send \/ Summary

Spec == Init /\ [][Next]_vars

(* ====================== Properties of the Selector ==================== *)

\* The matching regular files of the directory, by path.
MatchingFiles == {k \in 1 .. Len(dir) : Matches(pattern, dir[k]) /\ dir[k].kind = "file"}

\* Every path the glob yields can be stat'ed.
MetadataReadable == \A k \in 1 .. Len(dir) : Matches(pattern, dir[k]) => dir[k].kind # "broken"

\* The largest modification time among the matching regular files.
NewestTime == CHOOSE t \in Times :
                 /\ \E k \in MatchingFiles : dir[k].mtime = t
                 /\ \A k \in MatchingFiles : dir[k].mtime <= t

\* The first path in scan order that carries it.
NewestPath == CHOOSE k \in MatchingFiles :
                 /\ dir[k].mtime = NewestTime
                 /\ \A j \in MatchingFiles : dir[j].mtime = NewestTime => k <= j

\* The window the call ran with.
WindowUsed == IF selCalled = "find_latest_file" THEN NoInt ELSE check_period

SelReturned == selCalled # "none" /\ PatternValid(pattern)

\* C1: called with no window on a directory whose matches all have readable
\* metadata, the Selector returns nothing when no regular file matches, and
\* otherwise the matching regular file of maximal modification time, the
\* first in scan order among those sharing that time; what it returns is
\* decided by the matching regular files alone.
C1_NewestMatchingFile ==
    (SelReturned /\ MetadataReadable /\ ~WindowUsed.some) =>
        IF MatchingFiles = {}
        THEN selResult.kind = "None"
        ELSE /\ selResult.kind = "Some"
             /\ selResult.path = NewestPath
             /\ selResult.mtime = NewestTime

\* C1's case: two matching files tie on the newest time, a newer file that
\* does not match and a directory that does are present, the first of the
\* tie is returned.
C1_Witness ==
    /\ selCalled = "find_latest_file"
    /\ pattern = "*.txt"
    /\ MetadataReadable
    /\ \E j, k \in MatchingFiles :
          j < k /\ dir[j].mtime = NewestTime /\ dir[k].mtime = NewestTime
                /\ selResult.path = j
    /\ \E k \in 1 .. Len(dir) :
          dir[k].ext = "log" /\ dir[k].kind = "file" /\ dir[k].mtime > NewestTime
    /\ selResult.kind = "Some"

\* The newest match is older than the window allows.
OutsideWindow == WindowUsed.some /\ Now - NewestTime > WindowUsed.val

\* C2: on a directory whose matches all have readable metadata, the Selector
\* returns Ok(None) exactly when no regular file matches, or a window W was
\* given and the newest match's time T has now - T > W; otherwise (no window,
\* or now - T <= W) it returns the newest match.
C2_NoMatchExactlyWhenStale ==
    (SelReturned /\ MetadataReadable) =>
        /\ selResult.kind = "None" <=> (MatchingFiles = {} \/ OutsideWindow)
        /\ (MatchingFiles # {} /\ ~OutsideWindow) =>
              selResult.kind = "Some" /\ selResult.path = NewestPath

\* C2's case: a window is given, a file matches, it is older than the window,
\* nothing is returned.
C2_Witness ==
    /\ selCalled = "find_latest_file_with_period"
    /\ PatternValid(pattern) /\ MetadataReadable
    /\ check_period.some
    /\ MatchingFiles # {}
    /\ Now - NewestTime > check_period.val
    /\ selResult.kind = "None"

\* C3 (as claimed): a match whose metadata cannot be read is skipped, and the
\* call still returns the newest of the other matching files.
C3_MetadataFailureSkipped ==
    (SelReturned /\ ~MetadataReadable) =>
        /\ selResult.kind # "Err"
        /\ (MatchingFiles # {} /\ ~OutsideWindow) =>
              selResult.kind = "Some" /\ selResult.path = NewestPath

(* ======================= Properties of the driver ===================== *)

Entries == 1 .. Len(config)

SelectEvents(i) == {k \in 1 .. Len(events) : events[k].idx = i /\ events[k].op = "select"}
UploadEvents(i) == {k \in 1 .. Len(events) : events[k].idx = i /\ events[k].op = "upload"}

Loaded == cfgFile = "ok"

\* C4 (as claimed): an entry's recency duration reaches the Selector, so no
\* selection returns a file that is older than the entry's window, and no
\* such file is uploaded.
C4_StaleEntrySkipped ==
    \A k \in 1 .. Len(events) :
        LET p == parse_check_period(config[events[k].idx]) IN
        (events[k].op = "select" /\ p.ok /\ p.period.some
           /\ events[k].res = "Some")
          => Now - events[k].mtime <= p.period.val

\* A configuration error: the file cannot be read or deserialized, or an
\* entry's duration string does not parse.
ConfigurationError ==
    \/ ~Loaded
    \/ \E i \in Entries : ~parse_check_period(config[i]).ok

\* C5 (as claimed): with a configuration error no entry is selected or
\* uploaded, and the run ends with an error.
C5_ConfigErrorFatal ==
    ConfigurationError =>
        /\ events = <<>>
        /\ pc = "done" => exit = "err"

\* Steps main has taken: two per entry begun, one more once its upload is due.
Measure ==
    CASE pc = "load" -> 0
      [] pc = "select" -> 2 * idx
      [] pc = "send" -> 2 * idx + 1
      [] pc = "summary" -> 2 * Len(config) + 2
      [] OTHER -> 2 * Len(config) + 3

\* The calls so far are those of entries 1 .. idx in order: one selection
\* per entry, at most one upload, the upload right after its selection.
InOrder ==
    /\ \A j, k \in 1 .. Len(events) : j < k =>
          \/ events[j].idx < events[k].idx
          \/ /\ events[j].idx = events[k].idx
             /\ events[j].op = "select" /\ events[k].op = "upload"
             /\ k = j + 1
    /\ \A k \in 1 .. Len(events) : events[k].idx \in 1 .. idx
    /\ \A i \in Entries :
          Cardinality(SelectEvents(i)) = (IF i < idx \/ (i = idx /\ pc # "select") THEN 1 ELSE 0)

C6_Invariant ==
    Loaded =>
        /\ InOrder
        /\ pc # "done" => ENABLED Next
        /\ pc = "done" =>
              /\ exit = "ok"
              /\ \A i \in Entries : Cardinality(SelectEvents(i)) = 1
              /\ config # <<>> => summary

\* C6 (amended): for every non-empty list of entries and every combination of
\* per-entry outcomes, the entries are processed once each, in configuration
\* order, an entry's selection and upload before the next entry's; no error
\* stops the loop; every step brings the run closer to its end, a step is
\* possible until the end, and the run ends successfully after the summary.
\* With an empty list the run ends successfully without a summary.
C6_EveryEntryInOrder == [](C6_Invariant) /\ [][Measure' > Measure]_vars

\* C6's case: the first entry's selection failed, the second entry's upload
\* failed, the run ended with the summary.
C6_Witness ==
    /\ pc = "done" /\ summary /\ exit = "ok"
    /\ Len(config) >= 2
    /\ \E k \in SelectEvents(1) : events[k].res = "Err"
    /\ \E k \in UploadEvents(2) : events[k].res = "transport"

\* C6 (as claimed): every run over a loaded configuration reaches the summary.
C6_AlwaysSummary == (Loaded /\ pc = "done") => summary

\* C7: in dry-run mode no upload is ever made, and every entry is still
\* selected by the end of the run; outside dry-run mode an upload is made
\* only for an entry whose selection returned a path, and by the end of the
\* run for exactly those entries, once each.
C7_DryRunNeverUploads ==
    /\ dry_run => \A k \in 1 .. Len(events) : events[k].op # "upload"
    /\ \A i \in Entries :
          UploadEvents(i) # {} =>
              \E k \in SelectEvents(i) : events[k].res = "Some"
    /\ (Loaded /\ pc = "done") =>
          \A i \in Entries :
              /\ Cardinality(SelectEvents(i)) = 1
              /\ Cardinality(UploadEvents(i)) =
                    (IF ~dry_run /\ \E k \in SelectEvents(i) : events[k].res = "Some"
                     THEN 1 ELSE 0)

\* C7's case: a dry run ended in which a selection returned a path.
C7_Witness ==
    /\ dry_run /\ pc = "done" /\ Len(config) >= 2
    /\ \E k \in 1 .. Len(events) : events[k].res = "Some"
    /\ total_skipped >= 1

\* Entries whose selection has been made.
ProcessedEntries == {i \in Entries : SelectEvents(i) # {}}

SelectedAs(kind) == {i \in Entries : \E k \in SelectEvents(i) : events[k].res = kind}

\* Entries whose upload returned success.
SentEntries == {i \in Entries : \E k \in UploadEvents(i) : events[k].res = "success"}

\* Entries whose selection or upload returned an error.
FailedEntries ==
    SelectedAs("Err")
      \cup {i \in Entries : \E k \in UploadEvents(i) : events[k].res # "success"}

\* Entries skipped: no match, or a match in dry-run mode.
SkippedEntries == SelectedAs("None") \cup (IF dry_run THEN SelectedAs("Some") ELSE {})

\* C11: in every state total_sent + total_skipped is at most the number of
\* entries processed so far, total_sent is the number of entries whose upload
\* returned success (0 in dry-run mode), total_skipped the number of entries
\* with no match or with a match in dry-run mode, and failed entries are in
\* neither; at the end of the run the two add up to the number of configured
\* entries exactly when no entry failed.
C11_Counters ==
    /\ total_sent + total_skipped <= Cardinality(ProcessedEntries)
    /\ total_sent = Cardinality(SentEntries)
    /\ dry_run => total_sent = 0
    /\ total_skipped = Cardinality(SkippedEntries)
    /\ FailedEntries \cap (SentEntries \cup SkippedEntries) = {}
    /\ pc = "done" =>
          /\ total_sent + total_skipped = Len(config) - Cardinality(FailedEntries)
          /\ total_sent + total_skipped = Len(config) <=> FailedEntries = {}

\* C11's case: a run outside dry-run mode ended with one entry sent and
\* another failed, so the counters add up to less than the entries.
C11_Witness ==
    /\ pc = "done" /\ ~dry_run /\ Len(config) >= 2
    /\ total_sent = 1
    /\ FailedEntries # {}
    /\ total_sent + total_skipped < Len(config)

(* ====================== Properties of the Uploader ==================== *)

\* The file has a usable name and was read into memory: the request is built.
LocalOk == FileNameStr(upPath).some /\ upEnv.open_ok /\ upEnv.read_ok

\* The status is of the 2xx class.
Is2xx(status) == status \div 100 = 2

\* C8: send_file returns success for a response with a 2xx status; for a
\* response with any other status a remote rejection that carries the status
\* and the response body, or "No error message" when the body cannot be read;
\* and for no response a transport failure, which is not a remote rejection.
C8_Classification ==
    (syncRes.done /\ LocalOk) =>
        /\ (upEnv.transport_ok /\ Is2xx(upEnv.status)) =>
              syncRes.outcome.kind = "success"
        /\ (upEnv.transport_ok /\ ~Is2xx(upEnv.status)) =>
              /\ syncRes.outcome.kind = "remote"
              /\ syncRes.outcome.status = upEnv.status
              /\ syncRes.outcome.text =
                    (IF upEnv.body_ok THEN upEnv.body ELSE "No error message")
        /\ ~upEnv.transport_ok =>
              /\ syncRes.outcome.kind = "transport"
              /\ syncRes.outcome.context # RemoteError(0, "").context

\* C8's case: a 400 whose body cannot be read is reported with the placeholder.
C8_Witness ==
    /\ syncRes.done
    /\ upEnv.transport_ok /\ upEnv.status = 400 /\ ~upEnv.body_ok
    /\ syncRes.outcome.kind = "remote"
    /\ syncRes.outcome.text = "No error message"

\* C9: on the same path, caption, file-system state and remote response,
\* send_file and send_file_async put the same requests on the wire (the part
\* "file" with the base name, the part "content" only with a caption), take
\* the same steps in the same order, and return the same class of outcome
\* with the same status and error text.
C9_SyncAsyncEquivalent ==
    (syncRes.done /\ asyncRes.done) =>
        /\ syncRes.posts = asyncRes.posts
        /\ syncRes.steps = asyncRes.steps
        /\ syncRes.outcome.kind = asyncRes.outcome.kind
        /\ syncRes.outcome.status = asyncRes.outcome.status
        /\ syncRes.outcome.text = asyncRes.outcome.text
        /\ \A k \in 1 .. Len(asyncRes.posts) :
              LET form == asyncRes.posts[k].form IN
              /\ form[1].name = "file"
              /\ form[1].file_name = FileNameStr(upPath)
              /\ Len(form) = (IF upMessage.some THEN 2 ELSE 1)
              /\ upMessage.some => form[2].name = "content" /\ form[2].value = upMessage.val

\* C9's case: both entry points ran with a caption and the upload succeeded.
C9_Witness ==
    /\ syncRes.done /\ asyncRes.done
    /\ upMessage.some
    /\ asyncRes.outcome.kind = "success"
    /\ Len(asyncRes.posts) = 1

\* C10: a call of the Uploader issues at most one POST: none, and a local
\* error, when the path has no file name or the file cannot be opened or
\* read; exactly one when it ends in a transport failure or a remote
\* rejection, which is returned without a second request.
C10_AtMostOnePost ==
    \A r \in {syncRes, asyncRes} :
        r.done =>
            /\ Len(r.posts) <= 1
            /\ ~LocalOk => r.outcome.kind = "local" /\ r.posts = <<>>
            /\ r.outcome.kind \in {"transport", "remote"} => Len(r.posts) = 1

\* C10's case: the POST of send_file met a transport failure.
C10_Witness ==
    /\ syncRes.done
    /\ syncRes.outcome.kind = "transport"
    /\ Len(syncRes.posts) = 1

====
